---- MODULE Spec2Model ----
(***************************************************************************)
(* Skybooker: the route-computation core (server/services/graph.ts) and    *)
(* the pricing engine (generatePriceQuote).                                *)
(*                                                                         *)
(* Distances are whole kilometres.  Airports lie on one meridian, their    *)
(* latitude given in hundredths of a degree, so that haversineKm is        *)
(* 6371 * pi / 180 * 0.01 = 1.11195 km per latitude unit; the f-scores of  *)
(* A* are kept in units of 10^-5 km so that g + h stays an integer.        *)
(*                                                                         *)
(* Prices are exact fractions: amounts of a fare breakdown in hundredths   *)
(* of a currency unit, rates in tenths, demand factors in thousandths and  *)
(* class multipliers in twentieths.                                        *)
(***************************************************************************)
EXTENDS Integers, Sequences, FiniteSets, TLC

VARIABLES airports, routes, from, to, algorithm, result, pc, priceConfig, quote,
          run, response

vars == <<airports, routes, from, to, algorithm, result, pc, priceConfig, quote,
          run, response>>

----------------------------------------------------------------------------
(* Bounds of the model *)

\* longest connection list handed to computeRoute
MaxRoutes == 3

\* the registered airports, in the order the storage returns them
AirportCodes == <<"DEL", "BOM", "BLR">>

\* a code that is no airport's
UnknownCode == "XXX"

Codes == {AirportCodes[i] : i \in 1..Len(AirportCodes)} \cup {UnknownCode}

\* latitudes an airport may have (hundredths of a degree)
Lats == {0, 1}

\* distanceKm values an active connection may have
Weights == {0, 1, 2}

\* the connections the storage may hold, in the order it returns them: the
\* three sides of the triangle, one of them stored in both directions, a
\* self-loop, and a connection whose end is no airport.  The weight of a
\* self-loop is only ever compared with 0, and the weight of an edge to a
\* code that is no node is never added to a distance, so these take fewer
\* values
RoutePairs ==
    << [from |-> "DEL", to |-> "BOM", weights |-> Weights],
       [from |-> "BOM", to |-> "BLR", weights |-> Weights],
       [from |-> "DEL", to |-> "BLR", weights |-> Weights],
       [from |-> "BLR", to |-> "DEL", weights |-> Weights],
       [from |-> "BOM", to |-> "BOM", weights |-> {0, 1}],
       [from |-> "BLR", to |-> "XXX", weights |-> {1}] >>

\* distanceKm and active of the x-th of them when stored; an inactive
\* connection is the shortest one could take
RouteStates(x) ==
    {[distanceKm |-> w, active |-> TRUE] : w \in RoutePairs[x].weights}
        \cup {[distanceKm |-> 0, active |-> FALSE]}

Algorithms == {"dijkstra", "astar", "bellmanford", "floydwarshall"}

----------------------------------------------------------------------------
(* Values *)

\* JavaScript's Infinity: larger than every finite distance of the model
Infinity == 1000000000

\* null / undefined where a code is expected
NULL == "null"

\* x + y of two distances, Infinity absorbing
Plus(x, y) == IF x = Infinity \/ y = Infinity THEN Infinity ELSE x + y

Abs(x) == IF x < 0 THEN -x ELSE x

\* the outcomes of a call: a RouteResult, null, a thrown TypeError, or a
\* loop that never ends
RouteResult(path, segments, totalDistance) ==
    [kind |-> "route", path |-> path, segments |-> segments,
     totalDistance |-> totalDistance]

NoRoute == [kind |-> "null", path |-> <<>>, segments |-> <<>>, totalDistance |-> 0]

Thrown == [kind |-> "TypeError", path |-> <<>>, segments |-> <<>>, totalDistance |-> 0]

Hangs == [kind |-> "hang", path |-> <<>>, segments |-> <<>>, totalDistance |-> 0]

NoCall == [kind |-> "none", path |-> <<>>, segments |-> <<>>, totalDistance |-> 0]

----------------------------------------------------------------------------
(* haversineKm, in 10^-5 km, for two airports on one meridian *)

haversineKm(a, b) == 111195 * Abs(b.lat - a.lat)

----------------------------------------------------------------------------
(* class Graph *)

\* this.edges.get(code)?.push(edge)
PushEdge(edges, code, edge) ==
    IF code \in DOMAIN edges
        THEN [edges EXCEPT ![code] = Append(@, edge)]
        ELSE edges

\* a plausible slip: the reverse edge is not added
RECURSIVE AddRoutes_OneWay(_, _, _)
AddRoutes_OneWay(edges, rs, i) ==
    IF i > Len(rs) THEN edges
    ELSE LET route == rs[i]
             edge == [from |-> route.from, to |-> route.to,
                      distance |-> route.distanceKm]
         IN  IF route.active
                 THEN AddRoutes_OneWay(PushEdge(edges, route.from, edge), rs, i + 1)
                 ELSE AddRoutes_OneWay(edges, rs, i + 1)

\* routes.forEach(route => ...) from the i-th route on
RECURSIVE AddRoutes(_, _, _)
AddRoutes(edges, rs, i) ==
    IF i > Len(rs) THEN edges
    ELSE LET route == rs[i]
             edge == [from |-> route.from, to |-> route.to,
                      distance |-> route.distanceKm]
             reverseEdge == [from |-> route.to, to |-> route.from,
                             distance |-> route.distanceKm]
         IN  IF route.active
                 THEN AddRoutes(PushEdge(PushEdge(edges, route.from, edge),
                                         route.to, reverseEdge), rs, i + 1)
                 ELSE AddRoutes(edges, rs, i + 1)

\* a plausible slip: the constructor without its if (route.active)
Graph_IgnoreActive(as, rs) ==
    LET keys == [i \in 1..Len(as) |-> as[i].code]
        keySet == {as[i].code : i \in 1..Len(as)}
    IN  [keys |-> keys,
         nodes |-> [c \in keySet |->
                       (CHOOSE i \in 1..Len(as) : as[i].code = c)],
         airports |-> as,
         edges |-> AddRoutes([c \in keySet |-> <<>>],
                             [i \in 1..Len(rs) |-> [rs[i] EXCEPT !.active = TRUE]], 1)]

\* new Graph(airports, routes): keys is the insertion order of this.nodes
Graph(as, rs) ==
    LET keys == [i \in 1..Len(as) |-> as[i].code]
        keySet == {as[i].code : i \in 1..Len(as)}
    IN  [keys |-> keys,
         nodes |-> [c \in keySet |->
                       (CHOOSE i \in 1..Len(as) : as[i].code = c)],
         airports |-> as,
         edges |-> AddRoutes([c \in keySet |-> <<>>], rs, 1)]

\* this.nodes.has(code)
HasNode(g, code) == code \in DOMAIN g.nodes

getNode(g, code) == g.airports[g.nodes[code]]

getEdges(g, code) == IF code \in DOMAIN g.edges THEN g.edges[code] ELSE <<>>

\* a plausible slip: the last matching edge for the first
RECURSIVE FindDistance_Last(_, _, _)
FindDistance_Last(es, t, i) ==
    IF i > Len(es) THEN 0
    ELSE LET later == {k \in i..Len(es) : es[k].to = t}
         IN  IF later = {} THEN 0
             ELSE es[CHOOSE k \in later : \A j \in later : j <= k].distance

\* this.getEdges(from).find(e => e.to === to)?.distance || 0
RECURSIVE FindDistance(_, _, _)
FindDistance(es, t, i) ==
    IF i > Len(es) THEN 0
    ELSE IF es[i].to = t THEN es[i].distance
    ELSE FindDistance(es, t, i + 1)

\* for (let i = 0; i < path.length - 1; i++) { ... segments.push(...);
\* totalDistance += d; }, the loop buildRouteResult and floydWarshall both have
RECURSIVE BuildSegments(_, _, _, _)
BuildSegments(g, path, i, acc) ==
    IF i > Len(path) - 1 THEN acc
    ELSE LET d == FindDistance(getEdges(g, path[i]), path[i + 1], 1)
         IN  BuildSegments(g, path, i + 1,
                [segments |-> Append(acc.segments,
                                     [from |-> path[i], to |-> path[i + 1],
                                      distanceKm |-> d]),
                 totalDistance |-> acc.totalDistance + d])

NoSegments == [segments |-> <<>>, totalDistance |-> 0]

InSeq(x, s) == \E i \in 1..Len(s) : s[i] = x

\* previous.get(current) || null
PrevOf(previous, current) ==
    IF current \in DOMAIN previous THEN previous[current] ELSE NULL

\* while (current !== null) { path.unshift(current); current = ... }
\* a code met twice is met for ever: the loop does not end
RECURSIVE WalkBack(_, _, _)
WalkBack(previous, current, path) ==
    IF current = NULL THEN path
    ELSE IF InSeq(current, path) THEN <<NULL>>
    ELSE WalkBack(previous, PrevOf(previous, current), <<current>> \o path)

\* a plausible slip: totalDistance taken from the distance the search found
buildRouteResult_SearchDistance(g, start, end, previous, distances) ==
    IF end \in DOMAIN distances /\ distances[end] = Infinity THEN NoRoute
    ELSE LET path == WalkBack(previous, end, <<>>)
             built == BuildSegments(g, path, 1, NoSegments)
         IN  IF path = <<NULL>> THEN Hangs
             ELSE RouteResult(path, built.segments,
                              IF end \in DOMAIN distances THEN distances[end] ELSE 0)

\* a plausible slip: start put in front of the path the walk has built
buildRouteResult_StartTwice(g, start, end, previous, distances) ==
    IF end \in DOMAIN distances /\ distances[end] = Infinity THEN NoRoute
    ELSE LET walked == WalkBack(previous, end, <<>>)
             path == <<start>> \o walked
             built == BuildSegments(g, path, 1, NoSegments)
         IN  IF walked = <<NULL>> THEN Hangs
             ELSE RouteResult(path, built.segments, built.totalDistance)

buildRouteResult(g, start, end, previous, distances) ==
    IF end \in DOMAIN distances /\ distances[end] = Infinity THEN NoRoute
    ELSE LET path == WalkBack(previous, end, <<>>)
             built == BuildSegments(g, path, 1, NoSegments)
         IN  IF path = <<NULL>> THEN Hangs
             ELSE RouteResult(path, built.segments, built.totalDistance)

----------------------------------------------------------------------------
(* Graph.dijkstra *)

\* unvisited.forEach(node => if (dist < minDistance) ...): the first node of
\* least distance below Infinity, NULL when there is none
RECURSIVE MinNode(_, _, _, _, _)
MinNode(order, score, i, current, min) ==
    IF i > Len(order) THEN current
    ELSE IF score[order[i]] < min
        THEN MinNode(order, score, i + 1, order[i], score[order[i]])
        ELSE MinNode(order, score, i + 1, current, min)

Remove(s, x) == SelectSeq(s, LAMBDA y : y # x)

\* a plausible slip: the weight of the edge alone, as Prim's algorithm takes it
DijkstraAlt_EdgeOnly(distance, edge) == edge.distance

\* const alt = distances.get(current)! + edge.distance
DijkstraAlt(distance, edge) == Plus(distance, edge.distance)

\* for (const edge of this.getEdges(current)) ... from the i-th edge on
RECURSIVE DijkstraRelax(_, _, _, _)
DijkstraRelax(st, es, current, i) ==
    IF i > Len(es) THEN st
    ELSE LET edge == es[i]
             alt == DijkstraAlt(st.distances[current], edge)
         IN  IF ~InSeq(edge.to, st.unvisited) THEN DijkstraRelax(st, es, current, i + 1)
             ELSE IF alt < st.distances[edge.to]
                 THEN DijkstraRelax(
                        [st EXCEPT !.distances[edge.to] = alt,
                                   !.previous[edge.to] = current],
                        es, current, i + 1)
                 ELSE DijkstraRelax(st, es, current, i + 1)

\* while (unvisited.size > 0) ...
RECURSIVE DijkstraLoop(_, _, _)
DijkstraLoop(g, end, st) ==
    IF Len(st.unvisited) = 0 THEN st
    ELSE LET current == MinNode(st.unvisited, st.distances, 1, NULL, Infinity)
         IN  IF current = NULL THEN st
             ELSE IF current = end THEN st
             ELSE DijkstraLoop(g, end,
                    DijkstraRelax([st EXCEPT !.unvisited = Remove(@, current)],
                                  getEdges(g, current), current, 1))

\* distances.set(start, 0) also when start is no node
SetKey(m, k, v) == [x \in DOMAIN m \cup {k} |-> IF x = k THEN v ELSE m[x]]

dijkstra(g, start, end) ==
    LET init == [distances |-> SetKey([c \in DOMAIN g.nodes |-> Infinity], start, 0),
                 previous |-> [c \in DOMAIN g.nodes |-> NULL],
                 unvisited |-> g.keys]
        st == DijkstraLoop(g, end, init)
    IN  buildRouteResult(g, start, end, st.previous, st.distances)

----------------------------------------------------------------------------
(* Graph.astar *)

\* fScore = g + heuristic, in 10^-5 km
FScore(g, h) == IF g = Infinity THEN Infinity ELSE 100000 * g + h

\* a plausible slip: the loop without its if (closedSet.has(edge.to)) continue
RECURSIVE AstarRelax_Reopen(_, _, _, _, _, _)
AstarRelax_Reopen(g, endNode, st, es, current, i) ==
    IF i > Len(es) \/ st.thrown THEN st
    ELSE LET edge == es[i]
             tentativeG == Plus(st.gScore[current], edge.distance)
             opened == IF InSeq(edge.to, st.openSet) THEN st.openSet
                       ELSE Append(st.openSet, edge.to)
         IN  IF InSeq(edge.to, st.openSet) /\ tentativeG >= st.gScore[edge.to]
                 THEN AstarRelax_Reopen(g, endNode, st, es, current, i + 1)
             ELSE IF ~HasNode(g, edge.to)
                 THEN [st EXCEPT !.openSet = opened, !.thrown = TRUE]
             ELSE AstarRelax_Reopen(g, endNode,
                    [st EXCEPT !.openSet = opened,
                               !.previous[edge.to] = current,
                               !.gScore[edge.to] = tentativeG,
                               !.fScore[edge.to] =
                                   FScore(tentativeG,
                                          haversineKm(getNode(g, edge.to), endNode))],
                    es, current, i + 1)

\* for (const edge of this.getEdges(current)) ... from the i-th edge on;
\* st.thrown is set where this.getNode(edge.to)! is undefined and its
\* .airport is read
RECURSIVE AstarRelax(_, _, _, _, _, _)
AstarRelax(g, endNode, st, es, current, i) ==
    IF i > Len(es) \/ st.thrown THEN st
    ELSE LET edge == es[i]
             tentativeG == Plus(st.gScore[current], edge.distance)
             opened == IF InSeq(edge.to, st.openSet) THEN st.openSet
                       ELSE Append(st.openSet, edge.to)
         IN  IF edge.to \in st.closedSet THEN AstarRelax(g, endNode, st, es, current, i + 1)
             ELSE IF InSeq(edge.to, st.openSet) /\ tentativeG >= st.gScore[edge.to]
                 THEN AstarRelax(g, endNode, st, es, current, i + 1)
             ELSE IF ~HasNode(g, edge.to)
                 THEN [st EXCEPT !.openSet = opened, !.thrown = TRUE]
             ELSE AstarRelax(g, endNode,
                    [st EXCEPT !.openSet = opened,
                               !.previous[edge.to] = current,
                               !.gScore[edge.to] = tentativeG,
                               !.fScore[edge.to] =
                                   FScore(tentativeG,
                                          haversineKm(getNode(g, edge.to), endNode))],
                    es, current, i + 1)

\* while (openSet.size > 0) ...
RECURSIVE AstarLoop(_, _, _, _)
AstarLoop(g, end, endNode, st) ==
    IF Len(st.openSet) = 0 \/ st.thrown THEN st
    ELSE LET current == MinNode(st.openSet, st.fScore, 1, NULL, Infinity)
         IN  IF current = NULL THEN st
             ELSE IF current = end THEN st
             ELSE AstarLoop(g, end, endNode,
                    AstarRelax(g, endNode,
                               [st EXCEPT !.openSet = Remove(@, current),
                                          !.closedSet = @ \cup {current}],
                               getEdges(g, current), current, 1))

AstarInit(g, start, end) ==
    [gScore |-> [c \in DOMAIN g.nodes |-> IF c = start THEN 0 ELSE Infinity],
     fScore |-> [c \in DOMAIN g.nodes |->
                    IF c = start
                        THEN FScore(0, haversineKm(getNode(g, start), getNode(g, end)))
                        ELSE Infinity],
     previous |-> [c \in DOMAIN g.nodes |-> NULL],
     openSet |-> <<start>>,
     closedSet |-> {},
     thrown |-> FALSE]

astar(g, start, end) ==
    IF ~HasNode(g, start) \/ ~HasNode(g, end) THEN NoRoute
    ELSE LET st == AstarLoop(g, end, getNode(g, end), AstarInit(g, start, end))
         IN  IF st.thrown THEN Thrown
             ELSE buildRouteResult(g, start, end, st.previous, st.gScore)

----------------------------------------------------------------------------
(* Graph.bellmanFord *)

\* this.edges.forEach(arr => allEdges.push(...arr)), in the order of the keys
RECURSIVE AllEdges(_, _)
AllEdges(g, i) ==
    IF i > Len(g.keys) THEN <<>>
    ELSE g.edges[g.keys[i]] \o AllEdges(g, i + 1)

\* distances.get(code)!: undefined (modelled as absent) compares false
HasKey(m, k) == k \in DOMAIN m

\* a plausible slip: <= for < in the relaxation
RECURSIVE BellmanFordPass_AlsoEqual(_, _, _)
BellmanFordPass_AlsoEqual(st, es, j) ==
    IF j > Len(es) THEN st
    ELSE LET edge == es[j]
         IN  IF /\ HasKey(st.distances, edge.from)
                /\ HasKey(st.distances, edge.to)
                /\ Plus(st.distances[edge.from], edge.distance) <= st.distances[edge.to]
                /\ st.distances[edge.from] # Infinity
                 THEN BellmanFordPass_AlsoEqual(
                        [st EXCEPT !.distances[edge.to] =
                                       Plus(st.distances[edge.from], edge.distance),
                                   !.previous[edge.to] = edge.from],
                        es, j + 1)
                 ELSE BellmanFordPass_AlsoEqual(st, es, j + 1)

\* for (const edge of allEdges) ... from the j-th edge on
RECURSIVE BellmanFordPass(_, _, _)
BellmanFordPass(st, es, j) ==
    IF j > Len(es) THEN st
    ELSE LET edge == es[j]
         IN  IF /\ HasKey(st.distances, edge.from)
                /\ HasKey(st.distances, edge.to)
                /\ Plus(st.distances[edge.from], edge.distance) < st.distances[edge.to]
                 THEN BellmanFordPass(
                        [st EXCEPT !.distances[edge.to] =
                                       Plus(st.distances[edge.from], edge.distance),
                                   !.previous[edge.to] = edge.from],
                        es, j + 1)
                 ELSE BellmanFordPass(st, es, j + 1)

\* for (let i = 0; i < V - 1; i++) ...
RECURSIVE BellmanFordPasses(_, _, _, _)
BellmanFordPasses(st, es, i, V) ==
    IF i >= V - 1 THEN st
    ELSE BellmanFordPasses(BellmanFordPass(st, es, 1), es, i + 1, V)

\* a plausible slip: one pass too few, for (let i = 0; i < V - 2; i++)
bellmanFord_OnePassShort(g, start, end) ==
    LET init == [distances |-> SetKey([c \in DOMAIN g.nodes |-> Infinity], start, 0),
                 previous |-> [c \in DOMAIN g.nodes |-> NULL]]
        st == BellmanFordPasses(init, AllEdges(g, 1), 0, Len(g.keys) - 1)
    IN  IF HasKey(st.distances, end) /\ st.distances[end] = Infinity THEN NoRoute
        ELSE buildRouteResult(g, start, end, st.previous, st.distances)

bellmanFord(g, start, end) ==
    LET init == [distances |-> SetKey([c \in DOMAIN g.nodes |-> Infinity], start, 0),
                 previous |-> [c \in DOMAIN g.nodes |-> NULL]]
        st == BellmanFordPasses(init, AllEdges(g, 1), 0, Len(g.keys))
    IN  IF HasKey(st.distances, end) /\ st.distances[end] = Infinity THEN NoRoute
        ELSE buildRouteResult(g, start, end, st.previous, st.distances)

----------------------------------------------------------------------------
(* Graph.floydWarshall *)

\* indexMap.get(code): 1..n for a node, Undefined for any other code; a
\* matrix row has one more column, Undefined, for the property "undefined"
\* that dist[i][undefined] = ... and next[i][undefined] = ... create
Undefined == 0

IndexOf(g, code) == IF HasNode(g, code) THEN g.nodes[code] ELSE Undefined

\* edges.forEach(e => { dist[i][j] = e.distance; next[i][j] = e.to; })
RECURSIVE FloydEdges(_, _, _, _)
FloydEdges(g, m, es, x) ==
    IF x > Len(es) THEN m
    ELSE LET e == es[x]
             i == IndexOf(g, e.from)
             j == IndexOf(g, e.to)
         IN  FloydEdges(g, [m EXCEPT !.dist[i][j] = e.distance,
                                     !.next[i][j] = e.to], es, x + 1)

\* for (let j = 0; j < n; j++) ... for one k and one i.  The cells of the row
\* are written one after the other; the only cell read that the same row may
\* have written is dist[i][k], written when j = k, so a cell left of k sees
\* dist[i][k] as the row found it and a cell right of k sees it as j = k left it
FloydRow(m, n, k, i) ==
    LET dik == m.dist[i][k]
        atK == IF Plus(dik, m.dist[k][k]) < dik THEN Plus(dik, m.dist[k][k]) ELSE dik
        via(j) == Plus(IF j <= k THEN dik ELSE atK, m.dist[k][j])
    IN  [dist |-> [m.dist EXCEPT ![i] = [j \in 0..n |->
                      IF j >= 1 /\ via(j) < m.dist[i][j] THEN via(j) ELSE m.dist[i][j]]],
         next |-> [m.next EXCEPT ![i] = [j \in 0..n |->
                      IF j >= 1 /\ via(j) < m.dist[i][j] THEN m.next[i][k] ELSE m.next[i][j]]]]

\* for (let k ...) for (let i ...), c counting the (k, i) in the order of the loops
RECURSIVE FloydLoop(_, _, _)
FloydLoop(m, n, c) ==
    IF c >= n * n THEN m
    ELSE FloydLoop(FloydRow(m, n, (c \div n) + 1, (c % n) + 1), n, c + 1)

\* a plausible slip: the matrices without dist[i][i] = 0
FloydMatrices_NoDiagonal(g) ==
    LET n == Len(g.keys)
        init == [dist |-> [i \in 1..n |-> [j \in 0..n |-> Infinity]],
                 next |-> [i \in 1..n |-> [j \in 0..n |-> NULL]]]
    IN  FloydLoop(FloydEdges(g, init, AllEdges(g, 1), 1), n, 0)

\* dist and next after the initialisation and the triple loop
FloydMatrices(g) ==
    LET n == Len(g.keys)
        init == [dist |-> [i \in 1..n |-> [j \in 0..n |->
                              IF i = j THEN 0 ELSE Infinity]],
                 next |-> [i \in 1..n |-> [j \in 0..n |-> NULL]]]
    IN  FloydLoop(FloydEdges(g, init, AllEdges(g, 1), 1), n, 0)

\* while (u !== end) { u = next[indexMap.get(u)!][tIdx]!; if (!u) break; ... }
\* <<"TypeError">> where next[undefined] is indexed, <<NULL>> where a code
\* comes back and the loop cannot end
RECURSIVE FloydPath(_, _, _, _, _)
FloydPath(g, m, end, u, path) ==
    IF u = end THEN path
    ELSE IF ~HasNode(g, u) THEN <<"TypeError">>
    ELSE LET v == m.next[IndexOf(g, u)][IndexOf(g, end)]
         IN  IF v = NULL THEN path
             ELSE IF InSeq(v, path) /\ v # end THEN <<NULL>>
             ELSE FloydPath(g, m, end, v, Append(path, v))

floydWarshall(g, start, end) ==
    LET m == FloydMatrices(g)
        sIdx == IndexOf(g, start)
        tIdx == IndexOf(g, end)
    IN  IF sIdx = Undefined THEN Thrown
        ELSE IF tIdx # Undefined /\ m.dist[sIdx][tIdx] = Infinity THEN NoRoute
        ELSE LET path == FloydPath(g, m, end, start, <<start>>)
                 built == BuildSegments(g, path, 1, NoSegments)
             IN  IF path = <<"TypeError">> THEN Thrown
                 ELSE IF path = <<NULL>> THEN Hangs
                 ELSE RouteResult(path, built.segments, built.totalDistance)

----------------------------------------------------------------------------
(* computeRoute *)

\* a plausible slip: dijkstra for every other name
computeRoute_DefaultDijkstra(as, rs, f, t, alg) ==
    LET graph == Graph(as, rs)
    IN  CASE alg = "astar" -> astar(graph, f, t)
          [] alg = "bellmanford" -> bellmanFord(graph, f, t)
          [] alg = "floydwarshall" -> floydWarshall(graph, f, t)
          [] OTHER -> dijkstra(graph, f, t)

computeRoute(as, rs, f, t, alg) ==
    LET graph == Graph(as, rs)
    IN  CASE alg = "dijkstra" -> dijkstra(graph, f, t)
          [] alg = "astar" -> astar(graph, f, t)
          [] alg = "bellmanford" -> bellmanFord(graph, f, t)
          [] alg = "floydwarshall" -> floydWarshall(graph, f, t)
          [] OTHER -> NoRoute

----------------------------------------------------------------------------
(* The pricing engine *)

\* one currency unit in hundredths, the unit of the amounts of a breakdown
Unit == 10 * 10

\* the unit of corePrice * multiplier: hundredths of a currency unit times
\* thousandths of demand times twentieths of a class multiplier
FareScale == Unit * (10 * 10 * 10) * (2 * 10)

\* a plausible slip: Math.floor for Math.round
roundToNearest10_Floor(value) == (value \div (10 * FareScale)) * 10

\* Math.round(value / 10) * 10, in whole currency units; Math.round(x) is
\* the floor of x + 0.5
roundToNearest10(value) == ((value + 5 * FareScale) \div (10 * FareScale)) * 10

\* a plausible slip: the value returned as it is
clamp_Unbounded(value, min, max) == value

\* Math.min(Math.max(value, min), max)
clamp(value, min, max) ==
    LET atLeast == IF value > min THEN value ELSE min
    IN  IF atLeast < max THEN atLeast ELSE max

\* path.join("-") from the i-th code on
RECURSIVE Join(_, _)
Join(path, i) ==
    IF i > Len(path) THEN ""
    ELSE IF i = Len(path) THEN path[i]
    ELSE path[i] \o "-" \o Join(path, i + 1)

popularRoutes == <<"DEL-BOM", "BOM-DEL", "DEL-BLR", "BLR-DEL">>

\* 0.9 + Math.random() * 0.4 in hundredths, the draw given in twentieths
RandomFactor(random) == 90 + 2 * random

\* the demand factor in thousandths; baseDemand is in tenths
calculateDemandFactor(path, random) ==
    LET routeKey == Join(path, 1)
        baseDemand == IF \E i \in 1..Len(popularRoutes) : popularRoutes[i] = routeKey
                          THEN 12 ELSE 10
    IN  clamp(baseDemand * RandomFactor(random), 900, 1500)

\* a plausible slip: the Flex class left out
classes_WithoutFlex ==
    << [name |-> "Saver", multiplier |-> 19],
       [name |-> "Standard", multiplier |-> 20] >>

\* a plausible slip: Saver priced at 1.05 for 0.95
classes_SaverDearer ==
    << [name |-> "Saver", multiplier |-> 21],
       [name |-> "Standard", multiplier |-> 20],
       [name |-> "Flex", multiplier |-> 23] >>

\* the fare classes, their multipliers 0.95, 1.0 and 1.15 in twentieths
classes ==
    << [name |-> "Saver", multiplier |-> 19],
       [name |-> "Standard", multiplier |-> 20],
       [name |-> "Flex", multiplier |-> 23] >>

\* a plausible slip: the taxes levied before the operating fee
Taxes_BeforeOps(config, base, fuelCost, ops) ==
    (config.taxRate * (base + fuelCost)) \div 10

\* config.taxRate * (base + fuelCost + ops); the rate is in tenths and the
\* sum a multiple of ten hundredths, so the division is exact
Taxes(config, base, fuelCost, ops) ==
    (config.taxRate * (base + fuelCost + ops)) \div 10

\* the offers of generatePriceQuote, the draw of Math.random() given; the
\* offerId, a fresh random string, is left out
generatePriceQuote(path, totalDistanceKm, pax, config, random) ==
    LET base == config.baseFare * Unit
        fuelCost == totalDistanceKm * config.defaultBurnLPerKm
                        * config.fuelPricePerLitre * Unit
        ops == (config.feeRate * (base + fuelCost)) \div 10
        taxes == Taxes(config, base, fuelCost, ops)
        demand == calculateDemandFactor(path, random)
        fareBreakdown == [base |-> base, fuelCost |-> fuelCost, ops |-> ops,
                          taxes |-> taxes, demand |-> demand]
        corePrice == (base + fuelCost + ops + taxes) * demand
    IN  [i \in 1..Len(classes) |->
            [class |-> classes[i].name,
             fareBreakdown |-> fareBreakdown,
             totalFare |-> roundToNearest10(corePrice * classes[i].multiplier) * pax,
             currency |-> "INR"]]

----------------------------------------------------------------------------
(* The calls *)

\* the first airport at latitude 0, the others anywhere in Lats
AirportInputs ==
    {[i \in 1..Len(AirportCodes) |-> [code |-> AirportCodes[i], lat |-> l[i]]] :
        l \in {x \in [1..Len(AirportCodes) -> Lats] : x[1] = 0}}

\* the members of a set of numbers in increasing order
Ascending(P) ==
    CHOOSE s \in [1..Cardinality(P) -> P] :
        \A i, j \in 1..Cardinality(P) : i < j => s[i] < s[j]

\* the connection list made of the pairs P of RoutePairs, in their order
MakeRoutes(P, f) ==
    LET s == Ascending(P)
    IN  [i \in 1..Cardinality(P) |->
            [from |-> RoutePairs[s[i]].from, to |-> RoutePairs[s[i]].to,
             distanceKm |-> f[s[i]].distanceKm, active |-> f[s[i]].active]]

RouteInputs ==
    UNION {{MakeRoutes(P, f) :
               f \in {h \in [P -> UNION {RouteStates(x) : x \in P}] :
                         \A x \in P : h[x] \in RouteStates(x)}} :
              P \in {Q \in SUBSET (1..Len(RoutePairs)) : Cardinality(Q) <= MaxRoutes}}

\* most passengers of one quote
MaxPax == 2

\* the stored price configuration: baseFare, fuelPricePerLitre and
\* defaultBurnLPerKm in whole units, feeRate and taxRate in tenths
DefaultPriceConfig ==
    [baseFare |-> 100, fuelPricePerLitre |-> 2, defaultBurnLPerKm |-> 1,
     feeRate |-> 1, taxRate |-> 2]

PriceConfigInputs ==
    [baseFare : {-100, 0, 40, 100}, fuelPricePerLitre : {0, 2},
     defaultBurnLPerKm : {1}, feeRate : {0, 1}, taxRate : {0, 2}]

\* the paths, distances and draws of Math.random() (in twentieths) a quote
\* is asked for
Paths == {<<"DEL">>, <<"DEL", "BOM">>, <<"DEL", "BOM", "BLR">>}

Distances == {0, 10, 50}

Randoms == {0, 4, 9, 13, 18, 19}

NoQuote ==
    [kind |-> "none", path |-> <<>>, totalDistanceKm |-> 0, pax |-> 0,
     offers |-> <<>>]

\* no search under way: run is the state of the loop of a dijkstra or astar
\* call, with the nodes it has taken out so far, each with the distance and
\* the predecessor it had then
NoRun ==
    [alg |-> "none", phase |-> "none", start |-> NULL, end |-> NULL,
     st |-> [previous |-> <<>>], current |-> NULL, i |-> 0, removed |-> <<>>]

\* no request answered yet: response is the answer of the last request, and
\* whether it broadcast a route:recomputed event
NoResponse == [handler |-> "none", status |-> 0, broadcast |-> FALSE, priced |-> FALSE]

Init ==
    /\ airports \in AirportInputs
    /\ routes \in RouteInputs
    /\ from = NULL
    /\ to = NULL
    /\ algorithm = NULL
    /\ result = NoCall
    /\ pc = "idle"
    /\ priceConfig = DefaultPriceConfig
    /\ quote = NoQuote
    /\ run = NoRun
    /\ response = NoResponse

\* a plausible slip: the last RouteResult kept and handed out again for the
\* same pair of codes
ComputeRoute_Cached(f, t, alg) ==
    /\ pc = "idle"
    /\ from' = f
    /\ to' = t
    /\ algorithm' = alg
    /\ result' = IF result.kind = "route" /\ from = f /\ to = t
                     THEN result
                     ELSE computeRoute(airports, routes, f, t, alg)
    /\ pc' = "done"
    /\ UNCHANGED <<airports, routes, priceConfig, quote, run, response>>

ComputeRoute(f, t, alg) ==
    /\ pc = "idle"
    /\ from' = f
    /\ to' = t
    /\ algorithm' = alg
    /\ result' = computeRoute(airports, routes, f, t, alg)
    /\ pc' = "done"
    /\ UNCHANGED <<airports, routes, priceConfig, quote, run, response>>

Next == \E f \in Codes, t \in Codes, alg \in Algorithms : ComputeRoute(f, t, alg)

Spec == Init /\ [][Next]_vars

\* the quotes: any configuration, and generatePriceQuote called any number
\* of times
PriceInit ==
    /\ airports \in {a \in AirportInputs : \A i \in 1..Len(a) : a[i].lat = 0}
    /\ routes = <<>>
    /\ from = NULL
    /\ to = NULL
    /\ algorithm = NULL
    /\ result = NoCall
    /\ pc = "idle"
    /\ priceConfig \in PriceConfigInputs
    /\ quote = NoQuote
    /\ run = NoRun
    /\ response = NoResponse

GeneratePriceQuote(path, totalDistanceKm, pax, random) ==
    /\ quote' = [kind |-> "quote", path |-> path,
                 totalDistanceKm |-> totalDistanceKm, pax |-> pax,
                 offers |-> generatePriceQuote(path, totalDistanceKm, pax,
                                               priceConfig, random)]
    /\ UNCHANGED <<airports, routes, from, to, algorithm, result, pc, priceConfig,
                   run, response>>

PriceNext ==
    \E path \in Paths, totalDistanceKm \in Distances, pax \in 1..MaxPax,
       random \in Randoms :
        GeneratePriceQuote(path, totalDistanceKm, pax, random)

PriceSpec == PriceInit /\ [][PriceNext]_vars

\* connection lists with a negative distanceKm: every connection of
\* RoutePairs may have any of these states, one of them at least being
\* active with a negative distance
NegativeRouteStates ==
    {[distanceKm |-> w, active |-> TRUE] : w \in {-1, 0, 1}}
        \cup {[distanceKm |-> -1, active |-> FALSE]}

NegativeRouteInputs ==
    UNION {{MakeRoutes(P, f) :
               f \in {h \in [P -> NegativeRouteStates] :
                         \E x \in P : h[x].active /\ h[x].distanceKm < 0}} :
              P \in {Q \in SUBSET (1..Len(RoutePairs)) : Cardinality(Q) <= MaxRoutes}}

NegativeInit ==
    /\ airports \in {a \in AirportInputs : \A i \in 1..Len(a) : a[i].lat = 0}
    /\ routes \in NegativeRouteInputs
    /\ from = NULL
    /\ to = NULL
    /\ algorithm = NULL
    /\ result = NoCall
    /\ pc = "idle"
    /\ priceConfig = DefaultPriceConfig
    /\ quote = NoQuote
    /\ run = NoRun
    /\ response = NoResponse

NegativeNext == \E f \in Codes, t \in Codes : ComputeRoute(f, t, "bellmanford")

NegativeSpec == NegativeInit /\ [][NegativeNext]_vars

\* a server's life: calls of computeRoute and generatePriceQuote one after
\* another in any order, over the same stored airports, connections and
\* configuration
SessionRouteInputs ==
    {r \in RouteInputs :
        /\ Len(r) <= 1
        /\ \A i \in 1..Len(r) :
              r[i].active /\ r[i].distanceKm = 1 /\ r[i].to \in {"BOM", "XXX"}
                  /\ r[i].from # r[i].to}

SessionInit ==
    /\ airports \in {a \in AirportInputs : a[2].lat = 0}
    /\ routes \in SessionRouteInputs
    /\ from = NULL
    /\ to = NULL
    /\ algorithm = NULL
    /\ result = NoCall
    /\ pc = "idle"
    /\ priceConfig = DefaultPriceConfig
    /\ quote = NoQuote
    /\ run = NoRun
    /\ response = NoResponse

\* the caller has its RouteResult: the next call may come
Return ==
    /\ pc = "done"
    /\ pc' = "idle"
    /\ UNCHANGED <<airports, routes, from, to, algorithm, result, priceConfig, quote,
                   run, response>>

SessionNext ==
    \/ \E f \in Codes, t \in Codes, alg \in Algorithms : ComputeRoute(f, t, alg)
    \/ Return
    \/ \E path \in {<<"DEL">>, <<"DEL", "BOM">>}, totalDistanceKm \in {0, 10},
          random \in {0, 19} :
           GeneratePriceQuote(path, totalDistanceKm, 1, random)

SessionSpec == SessionInit /\ [][SessionNext]_vars

\* the loops of dijkstra and astar step by step: one step selects a node,
\* one step handles one edge of the selected node
RunRouteInputs == {r \in RouteInputs : \A i \in 1..Len(r) : r[i].active}

RunInit ==
    /\ airports \in AirportInputs
    /\ routes \in RunRouteInputs
    /\ from = NULL
    /\ to = NULL
    /\ algorithm = NULL
    /\ result = NoCall
    /\ pc = "idle"
    /\ priceConfig = DefaultPriceConfig
    /\ quote = NoQuote
    /\ run = NoRun
    /\ response = NoResponse

\* dijkstra(start, end) up to its while
StartDijkstra(start, end) ==
    /\ run.phase = "none"
    /\ run' = [alg |-> "dijkstra", phase |-> "select", start |-> start, end |-> end,
               st |-> LET g == Graph(airports, routes)
                      IN  [distances |-> SetKey([c \in DOMAIN g.nodes |-> Infinity],
                                                start, 0),
                           previous |-> [c \in DOMAIN g.nodes |-> NULL],
                           unvisited |-> g.keys],
               current |-> NULL, i |-> 0, removed |-> <<>>]
    /\ UNCHANGED <<airports, routes, from, to, algorithm, result, pc, priceConfig,
                   quote, response>>

\* astar(start, end) up to its while, start and end being nodes
StartAstar(start, end) ==
    /\ run.phase = "none"
    /\ LET g == Graph(airports, routes)
       IN  /\ HasNode(g, start) /\ HasNode(g, end)
           /\ run' = [alg |-> "astar", phase |-> "select", start |-> start,
                      end |-> end, st |-> AstarInit(g, start, end),
                      current |-> NULL, i |-> 0, removed |-> <<>>]
    /\ UNCHANGED <<airports, routes, from, to, algorithm, result, pc, priceConfig,
                   quote, response>>

\* the head of an iteration of dijkstra's while: the node of least distance
\* is selected, the loop left or the node taken out of unvisited
DijkstraSelect ==
    /\ run.alg = "dijkstra" /\ run.phase = "select"
    /\ LET st == run.st
           current == MinNode(st.unvisited, st.distances, 1, NULL, Infinity)
       IN  IF Len(st.unvisited) = 0 \/ current = NULL \/ current = run.end
               THEN run' = [run EXCEPT !.phase = "done", !.current = current]
               ELSE run' = [run EXCEPT !.phase = "relax", !.current = current, !.i = 1,
                                       !.st.unvisited = Remove(@, current),
                                       !.removed = Append(@,
                                           [node |-> current,
                                            distance |-> st.distances[current],
                                            previous |-> st.previous[current]])]
    /\ UNCHANGED <<airports, routes, from, to, algorithm, result, pc, priceConfig,
                   quote, response>>

\* one turn of for (const edge of this.getEdges(current)) in dijkstra
DijkstraEdge ==
    /\ run.alg = "dijkstra" /\ run.phase = "relax"
    /\ LET es == getEdges(Graph(airports, routes), run.current)
       IN  IF run.i > Len(es)
               THEN run' = [run EXCEPT !.phase = "select"]
               ELSE run' = [run EXCEPT !.i = @ + 1,
                                       !.st = DijkstraRelax(run.st, <<es[run.i]>>,
                                                            run.current, 1)]
    /\ UNCHANGED <<airports, routes, from, to, algorithm, result, pc, priceConfig,
                   quote, response>>

\* the head of an iteration of astar's while: the open node of least fScore
\* is selected, the loop left or the node moved from openSet to closedSet
AstarSelect ==
    /\ run.alg = "astar" /\ run.phase = "select"
    /\ LET st == run.st
           current == MinNode(st.openSet, st.fScore, 1, NULL, Infinity)
       IN  IF Len(st.openSet) = 0 \/ current = NULL \/ current = run.end
               THEN run' = [run EXCEPT !.phase = "done", !.current = current]
               ELSE run' = [run EXCEPT !.phase = "relax", !.current = current, !.i = 1,
                                       !.st.openSet = Remove(@, current),
                                       !.st.closedSet = @ \cup {current},
                                       !.removed = Append(@,
                                           [node |-> current,
                                            distance |-> st.gScore[current],
                                            previous |-> st.previous[current]])]
    /\ UNCHANGED <<airports, routes, from, to, algorithm, result, pc, priceConfig,
                   quote, response>>

\* one turn of for (const edge of this.getEdges(current)) in astar; the run
\* is over where the turn throws
AstarEdge ==
    /\ run.alg = "astar" /\ run.phase = "relax"
    /\ LET g == Graph(airports, routes)
           es == getEdges(g, run.current)
           st == IF run.i > Len(es) THEN run.st
                 ELSE AstarRelax(g, getNode(g, run.end), run.st, <<es[run.i]>>,
                                 run.current, 1)
       IN  IF run.i > Len(es)
               THEN run' = [run EXCEPT !.phase = "select"]
               ELSE run' = [run EXCEPT !.i = @ + 1, !.st = st,
                                       !.phase = IF st.thrown THEN "done" ELSE @]
    /\ UNCHANGED <<airports, routes, from, to, algorithm, result, pc, priceConfig,
                   quote, response>>

RunNext ==
    \/ \E start \in Codes, end \in Codes : StartDijkstra(start, end)
    \/ \E start \in Codes, end \in Codes : StartAstar(start, end)
    \/ DijkstraSelect
    \/ DijkstraEdge
    \/ AstarSelect
    \/ AstarEdge

RunSpec == RunInit /\ [][RunNext]_vars

\* the handlers: one request for a route or a quote, and the request for
\* prices that may follow a route
HandlerInit ==
    /\ airports \in {a \in AirportInputs : a[2].lat = 0}
    /\ routes \in {r \in RouteInputs : Len(r) <= 2}
    /\ from = NULL
    /\ to = NULL
    /\ algorithm = NULL
    /\ result = NoCall
    /\ pc = "idle"
    /\ priceConfig = DefaultPriceConfig
    /\ quote = NoQuote
    /\ run = NoRun
    /\ response = NoResponse

\* storage.getActiveRoutes(): where(eq(routeEdges.active, true))
getActiveRoutes(rs) == SelectSeq(rs, LAMBDA r : r.active)

\* the status a GET handler answers with: 404 for null, 200 for a
\* RouteResult; an exception goes through asyncHandler to the error handler
\* of the framework, which answers 500; a call that does not return is not
\* answered
StatusOf(r) ==
    CASE r.kind = "route" -> 200
      [] r.kind = "null" -> 404
      [] r.kind = "TypeError" -> 500
      [] OTHER -> 0

\* GET /api/route?from=&to=&algorithm=
GetRoute(f, t, alg) ==
    /\ pc = "idle"
    /\ LET r == computeRoute(airports, getActiveRoutes(routes), f, t, alg)
       IN  /\ result' = r
           /\ response' = [handler |-> "GET /api/route", status |-> StatusOf(r),
                           broadcast |-> (r.kind = "route"), priced |-> FALSE]
    /\ from' = f
    /\ to' = t
    /\ algorithm' = alg
    /\ pc' = "done"
    /\ UNCHANGED <<airports, routes, priceConfig, quote, run>>

\* GET /api/quote?from=&to=&pax=&algorithm=
GetQuote(f, t, pax, alg, random) ==
    /\ pc = "idle"
    /\ LET routeResult == computeRoute(airports, getActiveRoutes(routes), f, t, alg)
       IN  /\ result' = routeResult
           /\ response' = [handler |-> "GET /api/quote",
                           status |-> StatusOf(routeResult),
                           broadcast |-> FALSE,
                           priced |-> (routeResult.kind = "route")]
           /\ quote' = IF routeResult.kind = "route"
                           THEN [kind |-> "quote", path |-> routeResult.path,
                                 totalDistanceKm |-> routeResult.totalDistance,
                                 pax |-> pax,
                                 offers |-> generatePriceQuote(routeResult.path,
                                               routeResult.totalDistance, pax,
                                               priceConfig, random)]
                           ELSE quote
    /\ from' = f
    /\ to' = t
    /\ algorithm' = alg
    /\ pc' = "done"
    /\ UNCHANGED <<airports, routes, priceConfig, run>>

\* routes.find(r => r.from === from && r.to === to)?.distanceKm, 0 where
\* there is none, from the x-th route on
RECURSIVE FindRoute(_, _, _, _)
FindRoute(rs, f, t, x) ==
    IF x > Len(rs) THEN 0
    ELSE IF rs[x].from = f /\ rs[x].to = t THEN rs[x].distanceKm
    ELSE FindRoute(rs, f, t, x + 1)

\* for (let i = 0; i < path.length - 1; i++) ... totalDistance += ...
RECURSIVE PostedDistance(_, _, _)
PostedDistance(rs, path, i) ==
    IF i > Len(path) - 1 THEN 0
    ELSE FindRoute(rs, path[i], path[i + 1], 1) + PostedDistance(rs, path, i + 1)

\* POST /api/price/quote { path, pax }, by a client that has a route
PostPriceQuote(path, pax, random) ==
    /\ pc = "done"
    /\ response.handler = "GET /api/route"
    /\ LET totalDistance == PostedDistance(getActiveRoutes(routes), path, 1)
       IN  quote' = [kind |-> "quote", path |-> path,
                     totalDistanceKm |-> totalDistance, pax |-> pax,
                     offers |-> generatePriceQuote(path, totalDistance, pax,
                                                   priceConfig, random)]
    /\ response' = [handler |-> "POST /api/price/quote", status |-> 200,
                    broadcast |-> FALSE, priced |-> TRUE]
    /\ pc' = "posted"
    /\ UNCHANGED <<airports, routes, from, to, algorithm, result, priceConfig, run>>

\* an algorithm name that is none of the four
AlgorithmNames == Algorithms \cup {"bfs"}

HandlerNext ==
    \/ \E f \in Codes, t \in Codes, alg \in AlgorithmNames : GetRoute(f, t, alg)
    \/ \E f \in Codes, t \in Codes, alg \in AlgorithmNames, random \in {0, 19} :
          GetQuote(f, t, MaxPax, alg, random)
    \/ \E path \in {result.path, <<"BLR", "DEL", "BOM">>}, random \in {0, 19} :
          PostPriceQuote(path, 1, random)

HandlerSpec == HandlerInit /\ [][HandlerNext]_vars

----------------------------------------------------------------------------
(* What the claims speak of *)

\* the graph of the call
G == Graph(airports, routes)

Called == pc = "done"

IsAirport(c) == c \in {airports[i].code : i \in 1..Len(airports)}

Returned == result.kind = "route"

\* no ordered pair of codes is joined by two edges of different weight
UnambiguousIn(g) ==
    \A c \in DOMAIN g.edges : \A x, y \in 1..Len(g.edges[c]) :
        g.edges[c][x].to = g.edges[c][y].to
            => g.edges[c][x].distance = g.edges[c][y].distance

Unambiguous == UnambiguousIn(G)

Min(x, y) == IF x < y THEN x ELSE y

\* the least sum of edge weights over the directed walks of g from s to t of
\* at most hops edges, Infinity when there is none
RECURSIVE WalkDistance(_, _, _, _)
RECURSIVE LeastVia(_, _, _, _, _)
WalkDistance(g, s, t, hops) ==
    IF hops = 0 THEN (IF s = t THEN 0 ELSE Infinity)
    ELSE Min(IF s = t THEN 0 ELSE Infinity, LeastVia(g, getEdges(g, s), t, hops, 1))

LeastVia(g, es, t, hops, i) ==
    IF i > Len(es) THEN Infinity
    ELSE Min(Plus(es[i].distance, WalkDistance(g, es[i].to, t, hops - 1)),
             LeastVia(g, es, t, hops, i + 1))

\* a walk that repeats a node is no shorter than the path inside it, so the
\* walks of at most as many edges as there are nodes give the least distance
PathDistance(s, t) ==
    LET g == G IN WalkDistance(g, s, t, Len(g.keys))

Connected(s, t) == PathDistance(s, t) # Infinity

RECURSIVE SegmentSum(_)
SegmentSum(segments) ==
    IF segments = <<>> THEN 0
    ELSE Head(segments).distanceKm + SegmentSum(Tail(segments))

\* two outcomes are both null, or both a RouteResult of the same totalDistance
SameDistance(r1, r2) ==
    \/ r1.kind = "null" /\ r2.kind = "null"
    \/ r1.kind = "route" /\ r2.kind = "route" /\ r1.totalDistance = r2.totalDistance

----------------------------------------------------------------------------
(* C1 *)

\* C1: on a graph of non-negative weights, for any start and end codes,
\* dijkstra and astar both return null or both return a RouteResult of the
\* same totalDistance.  (Every weight of the model is non-negative.)
C1_DijkstraAstarAgree ==
    (Called /\ algorithm = "dijkstra") => SameDistance(result, astar(G, from, to))

----------------------------------------------------------------------------
(* C2 *)

\* C2: on a graph where no ordered pair is joined by two edges of different
\* weight, bellmanFord and floydWarshall return, for every pair of airports,
\* null exactly when dijkstra does and otherwise dijkstra's totalDistance
C2_RelaxationAndAllPairsAgree ==
    (/\ Called
     /\ algorithm \in {"bellmanford", "floydwarshall"}
     /\ IsAirport(from) /\ IsAirport(to)
     /\ Unambiguous)
        => SameDistance(result, dijkstra(G, from, to))

\* a direct connection exists and the route found goes round it, being shorter
Detour ==
    /\ Returned
    /\ Len(result.path) = 3
    /\ LET es == getEdges(G, from)
       IN  \E x \in 1..Len(es) :
               es[x].to = to /\ es[x].distance > result.totalDistance

C2_Witness ==
    /\ Called /\ algorithm = "floydwarshall"
    /\ IsAirport(from) /\ IsAirport(to) /\ Unambiguous
    /\ Detour

----------------------------------------------------------------------------
(* C3 *)

\* C3: on a graph without parallel edges of different weight, for an airport
\* start and an airport end that start reaches, dijkstra's totalDistance is
\* the least sum of edge weights over the directed paths from start to end
C3_DijkstraIsShortest ==
    (/\ Called /\ algorithm = "dijkstra"
     /\ IsAirport(from) /\ IsAirport(to)
     /\ Unambiguous)
        => LET least == PathDistance(from, to)
           IN  least # Infinity => Returned /\ result.totalDistance = least

C3_Witness ==
    /\ Called /\ algorithm = "dijkstra"
    /\ IsAirport(from) /\ IsAirport(to) /\ Unambiguous
    /\ Detour
    /\ result.totalDistance > 0

----------------------------------------------------------------------------
(* C4 *)

\* C4: the totalDistance of every RouteResult, whichever algorithm returned
\* it, is the sum of the distanceKm of its segments
C4_TotalIsSumOfSegments ==
    (Called /\ Returned) => result.totalDistance = SegmentSum(result.segments)

\* a result of two hops found where a pair has edges of different weights
C4_Witness ==
    /\ Called /\ Returned
    /\ Len(result.segments) = 2
    /\ result.totalDistance > 0
    /\ ~Unambiguous

----------------------------------------------------------------------------
(* C5 *)

\* C5: every RouteResult, for any start and end codes, starts at start, ends
\* at end, has one more code than segments, and its i-th segment joins the
\* i-th code to the next
C5_PathShape ==
    (Called /\ Returned) =>
        /\ Len(result.path) = Len(result.segments) + 1
        /\ result.path[1] = from
        /\ result.path[Len(result.path)] = to
        /\ \A i \in 1..Len(result.segments) :
              /\ result.segments[i].from = result.path[i]
              /\ result.segments[i].to = result.path[i + 1]

----------------------------------------------------------------------------
(* C6 *)

\* C6: a call whose start and end are one airport c returns the path <<c>>,
\* no segment and totalDistance 0, whichever the algorithm, self-loops on c
\* included
C6_SameAirport ==
    (Called /\ from = to /\ IsAirport(from))
        => result = RouteResult(<<from>>, <<>>, 0)

SelfLoop(c) ==
    LET es == getEdges(G, c)
    IN  \E x \in 1..Len(es) : es[x].to = c /\ es[x].distance > 0

C6_Witness ==
    /\ Called /\ algorithm = "floydwarshall"
    /\ from = to /\ IsAirport(from)
    /\ SelfLoop(from)

----------------------------------------------------------------------------
(* C7 *)

\* the connections that join a and b, in either stored direction
Joining(a, b) ==
    {x \in 1..Len(routes) :
        \/ routes[x].from = a /\ routes[x].to = b
        \/ routes[x].from = b /\ routes[x].to = a}

\* C7: every hop of a RouteResult is an active connection between its two
\* codes, stored in either direction, and the distance of its segment is the
\* distanceKm of such an active connection
C7_OnlyActiveConnections ==
    (Called /\ Returned) =>
        \A i \in 1..(Len(result.path) - 1) :
            \E x \in Joining(result.path[i], result.path[i + 1]) :
                /\ routes[x].active
                /\ i <= Len(result.segments)
                /\ result.segments[i].distanceKm = routes[x].distanceKm

\* the direct connection is inactive and the route goes round it
C7_Witness ==
    /\ Called /\ Returned
    /\ Len(result.path) = 3
    /\ result.totalDistance > 0
    /\ Joining(from, to) # {}
    /\ \A x \in Joining(from, to) : ~routes[x].active

----------------------------------------------------------------------------
(* C8 *)

\* C8: a call whose start code or end code is no airport returns null,
\* whichever the algorithm, also when start = end
C8_UnknownCodeGivesNull ==
    (Called /\ (~IsAirport(from) \/ ~IsAirport(to))) => result = NoRoute

----------------------------------------------------------------------------
(* C9 *)

\* C9: for an airport start and an airport end, the call returns null where
\* no directed path leads from start to end and a RouteResult where one does
C9_NullIffUnreachable ==
    (Called /\ IsAirport(from) /\ IsAirport(to)) =>
        IF Connected(from, to) THEN Returned ELSE result = NoRoute

----------------------------------------------------------------------------
(* C10 *)

\* C10: computeRoute completes with a RouteResult or null, whatever the
\* airports, the connections, the codes and the algorithm
C10_NeverThrows ==
    Called => result.kind \in {"route", "null"}

----------------------------------------------------------------------------
(* The quotes *)

Quoted == quote.kind = "quote"

\* the multiplier the fare classes are documented to have, in twentieths
Multiplier(class) ==
    CASE class = "Saver" -> 19
      [] class = "Standard" -> 20
      [] class = "Flex" -> 23

\* (base + fuelCost + ops + taxes) * demand of a breakdown, in hundred
\* thousandths of a currency unit
CorePrice(b) == (b.base + b.fuelCost + b.ops + b.taxes) * b.demand

\* the whole currency units of one currency unit of corePrice
CoreUnit == Unit * (10 * 10 * 10)

\* n is a multiple of 10 nearest to value, value in units of FareScale
NearestTen(n, value) ==
    /\ n % 10 = 0
    /\ n * FareScale - 5 * FareScale <= value
    /\ value <= n * FareScale + 5 * FareScale

TotalFare(i) == quote.offers[i].totalFare

\* C11: each offer's totalFare is corePrice times the multiplier of its
\* class (0.95 Saver, 1.00 Standard, 1.15 Flex), rounded to the nearest
\* multiple of 10, times the passenger count, corePrice being
\* (base + fuelCost + ops + taxes) * demand of its breakdown; so every
\* totalFare is a multiple of 10 * pax
C11_TotalFareRounded ==
    Quoted =>
        \A i \in 1..Len(quote.offers) :
            LET o == quote.offers[i]
                perPassenger == o.totalFare \div quote.pax
            IN  /\ perPassenger * quote.pax = o.totalFare
                /\ NearestTen(perPassenger,
                              CorePrice(o.fareBreakdown) * Multiplier(o.class))
                /\ o.totalFare % (10 * quote.pax) = 0

\* a quote for several passengers whose Saver price had to be rounded up
\* and whose Flex price had to be rounded down
C11_Witness ==
    /\ Quoted
    /\ quote.pax > 1
    /\ Len(quote.offers) = 3
    /\ CorePrice(quote.offers[1].fareBreakdown) > 0
    /\ (TotalFare(1) \div quote.pax) * FareScale
           > CorePrice(quote.offers[1].fareBreakdown) * Multiplier("Saver")
    /\ (TotalFare(3) \div quote.pax) * FareScale
           < CorePrice(quote.offers[3].fareBreakdown) * Multiplier("Flex")

\* C12: with a positive corePrice and at least one passenger the three
\* offers are strictly ordered, Saver < Standard < Flex
C12_StrictlyOrdered ==
    (Quoted /\ quote.pax >= 1 /\ CorePrice(quote.offers[1].fareBreakdown) > 0)
        => (TotalFare(1) < TotalFare(2) /\ TotalFare(2) < TotalFare(3))

\* C12, as the code has it: with a positive corePrice the offers are ordered
\* Saver <= Standard <= Flex, and strictly so once corePrice is at least
\* 200 currency units, where the classes lie at least 10 apart
C12_Ordered ==
    (Quoted /\ quote.pax >= 1 /\ CorePrice(quote.offers[1].fareBreakdown) > 0)
        => /\ TotalFare(1) <= TotalFare(2)
           /\ TotalFare(2) <= TotalFare(3)
           /\ CorePrice(quote.offers[1].fareBreakdown) >= 200 * CoreUnit
                  => (TotalFare(1) < TotalFare(2) /\ TotalFare(2) < TotalFare(3))

\* a quote with corePrice between 200 and 210 currency units, where Saver
\* and Standard are one step of 10 apart
C12_Witness ==
    /\ Quoted
    /\ CorePrice(quote.offers[1].fareBreakdown) >= 200 * CoreUnit
    /\ CorePrice(quote.offers[1].fareBreakdown) < 210 * CoreUnit
    /\ TotalFare(1) + 10 * quote.pax = TotalFare(2)

\* C13: the demand factor stored in the breakdown of every offer of every
\* quote lies in [0.9, 1.5]
C13_DemandInRange ==
    Quoted =>
        \A i \in 1..Len(quote.offers) :
            /\ quote.offers[i].fareBreakdown.demand >= 900
            /\ quote.offers[i].fareBreakdown.demand <= 1500

\* a popular route whose demand was cut down to 1.5: 1.2 * (0.9 + 0.02 k)
\* is 1.5 for no whole k
C13_Witness ==
    /\ Quoted
    /\ Len(quote.offers) > 0
    /\ quote.path = <<"DEL", "BOM">>
    /\ quote.offers[1].fareBreakdown.demand = 1500

\* C14: a quote holds exactly three offers, tagged Saver, Standard, Flex in
\* this order
C14_ThreeOffers ==
    Quoted =>
        /\ Len(quote.offers) = 3
        /\ quote.offers[1].class = "Saver"
        /\ quote.offers[2].class = "Standard"
        /\ quote.offers[3].class = "Flex"

\* a quote for a path of three airports, most passengers, no distance and
\* a configuration of zeros
C14_Witness ==
    /\ Quoted
    /\ Len(quote.path) = 3
    /\ quote.pax = MaxPax
    /\ quote.totalDistanceKm = 0
    /\ priceConfig.baseFare = 0
    /\ priceConfig.feeRate = 0
    /\ Len(quote.offers) = 3

\* C15: the offers of a quote carry one and the same breakdown, with
\* base = baseFare, fuelCost = totalDistanceKm * defaultBurnLPerKm *
\* fuelPricePerLitre, ops = feeRate * (base + fuelCost) and
\* taxes = taxRate * (base + fuelCost + ops); with no distance fuelCost is 0
C15_SharedBreakdown ==
    Quoted =>
        \A i \in 1..Len(quote.offers) :
            LET b == quote.offers[i].fareBreakdown
            IN  /\ b = quote.offers[1].fareBreakdown
                /\ b.base = priceConfig.baseFare * Unit
                /\ b.fuelCost = quote.totalDistanceKm * priceConfig.defaultBurnLPerKm
                                    * priceConfig.fuelPricePerLitre * Unit
                /\ 10 * b.ops = priceConfig.feeRate * (b.base + b.fuelCost)
                /\ 10 * b.taxes = priceConfig.taxRate * (b.base + b.fuelCost + b.ops)
                /\ quote.totalDistanceKm = 0 => b.fuelCost = 0

\* a quote over no distance under a configuration with fuel price, fee and
\* tax: the fare is built from base, ops and taxes
C15_Witness ==
    /\ Quoted
    /\ Len(quote.offers) = 3
    /\ quote.totalDistanceKm = 0
    /\ priceConfig.fuelPricePerLitre > 0
    /\ quote.offers[3].fareBreakdown.fuelCost = 0
    /\ quote.offers[3].fareBreakdown.ops > 0
    /\ quote.offers[3].fareBreakdown.taxes > 0

\* the edges from a to b in the adjacency list of a
EdgesTo(g, a, b) ==
    IF a \in DOMAIN g.edges
        THEN {k \in 1..Len(g.edges[a]) : g.edges[a][k].to = b}
        ELSE {}

\* C16: for every active connection between two registered airports the
\* adjacency list of each endpoint holds an edge to the other with the
\* connection's weight; so every edge between registered airports has a
\* reverse edge of equal weight
C16_BothDirections ==
    LET g == G
    IN  /\ \A x \in 1..Len(routes) :
              (routes[x].active /\ IsAirport(routes[x].from) /\ IsAirport(routes[x].to))
                  => /\ \E k \in EdgesTo(g, routes[x].from, routes[x].to) :
                            g.edges[routes[x].from][k].distance = routes[x].distanceKm
                     /\ \E k \in EdgesTo(g, routes[x].to, routes[x].from) :
                            g.edges[routes[x].to][k].distance = routes[x].distanceKm
        /\ \A a \in DOMAIN g.edges : \A k \in 1..Len(g.edges[a]) :
              IsAirport(g.edges[a][k].to)
                  => \E j \in EdgesTo(g, g.edges[a][k].to, a) :
                         g.edges[g.edges[a][k].to][j].distance = g.edges[a][k].distance

\* BOM -> BLR is stored in this direction only and a route was found from
\* BLR to BOM over its reverse edge
C16_Witness ==
    /\ Called /\ Returned
    /\ from = "BLR" /\ to = "BOM"
    /\ result.path = <<"BLR", "BOM">>
    /\ result.totalDistance = 2
    /\ \E x \in 1..Len(routes) :
          /\ routes[x].from = "BOM" /\ routes[x].to = "BLR"
          /\ routes[x].active /\ routes[x].distanceKm = 2
    /\ \A x \in 1..Len(routes) : routes[x].from # "BLR"

\* C17: when both directions of a connection are stored, active and of the
\* same weight, the adjacency list of each endpoint holds exactly one edge
\* to the other
C17_NoDoubleAdd ==
    \A x, y \in 1..Len(routes) :
        (/\ routes[x].active /\ routes[y].active
         /\ routes[x].from # routes[x].to
         /\ IsAirport(routes[x].from) /\ IsAirport(routes[x].to)
         /\ routes[y].from = routes[x].to /\ routes[y].to = routes[x].from
         /\ routes[y].distanceKm = routes[x].distanceKm)
            => /\ Cardinality(EdgesTo(G, routes[x].from, routes[x].to)) = 1
               /\ Cardinality(EdgesTo(G, routes[x].to, routes[x].from)) = 1

\* C18: over a connection list with an active connection of negative
\* distanceKm, bellmanFord ends and returns a RouteResult or null
C18_NegativeWeightsTolerated ==
    (Called /\ algorithm = "bellmanford"
        /\ \E x \in 1..Len(routes) : routes[x].active /\ routes[x].distanceKm < 0)
        => result.kind \in {"route", "null"}

\* C19: no offer of a quote has a negative totalFare, whatever the
\* configuration (generatePriceQuote has no error outcome)
C19_NoNegativeFare ==
    Quoted => \A i \in 1..Len(quote.offers) : quote.offers[i].totalFare >= 0

----------------------------------------------------------------------------
(* Parallel edges *)

\* the first of the edges from a to b in the adjacency list of a
FirstEdgeTo(g, a, b) ==
    CHOOSE k \in EdgesTo(g, a, b) : \A j \in EdgesTo(g, a, b) : k <= j

\* C21: the distanceKm of a segment (from, to) of any algorithm's
\* RouteResult is the weight of the first edge to `to` in the adjacency
\* list of from, whatever other edges join the same ordered pair
C21_FirstParallelEdge ==
    (Called /\ Returned) =>
        LET g == G
        IN  \A i \in 1..Len(result.segments) :
                LET s == result.segments[i]
                IN  IF EdgesTo(g, s.from, s.to) = {} THEN s.distanceKm = 0
                    ELSE s.distanceKm
                             = g.edges[s.from][FirstEdgeTo(g, s.from, s.to)].distance

\* DEL -> BLR is stored with weight 2 and then BLR -> DEL with weight 1, so
\* that the list of DEL holds two edges to BLR, the first of them the
\* longer, and the segment DEL -> BLR has the weight 2
C21_Witness ==
    /\ Called /\ Returned
    /\ result.path = <<"DEL", "BLR">>
    /\ result.segments[1].distanceKm = 2
    /\ Cardinality(EdgesTo(G, "DEL", "BLR")) = 2
    /\ \E k \in EdgesTo(G, "DEL", "BLR") : G.edges["DEL"][k].distance = 1

\* the distance the search itself has for end when it stops
SearchDistance(g, alg, start, end) ==
    LET init == [distances |-> SetKey([c \in DOMAIN g.nodes |-> Infinity], start, 0),
                 previous |-> [c \in DOMAIN g.nodes |-> NULL],
                 unvisited |-> g.keys]
    IN  CASE alg = "dijkstra" -> DijkstraLoop(g, end, init).distances[end]
          [] alg = "astar" ->
                AstarLoop(g, end, getNode(g, end), AstarInit(g, start, end)).gScore[end]
          [] alg = "bellmanford" ->
                BellmanFordPasses(init, AllEdges(g, 1), 0, Len(g.keys)).distances[end]
          [] alg = "floydwarshall" ->
                FloydMatrices(g).dist[IndexOf(g, start)][IndexOf(g, end)]

\* C22: for two airports, the totalDistance of the RouteResult of any of
\* the four algorithms is the distance the search computed for the
\* destination, parallel edges of different weights or not
C22_TotalIsSearchDistance ==
    (Called /\ Returned /\ IsAirport(from) /\ IsAirport(to))
        => result.totalDistance = SearchDistance(G, algorithm, from, to)

----------------------------------------------------------------------------
(* The heuristic of astar *)

\* h(u) <= w(u, v) + h(v) for every edge u -> v of g, h the great-circle
\* distance to end, which is 0 at end; an edge to a code that is no node has
\* no h(v)
ConsistentHeuristic(g, end) ==
    \A u \in DOMAIN g.edges : \A k \in 1..Len(g.edges[u]) :
        LET edge == g.edges[u][k]
        IN  /\ HasNode(g, edge.to)
            /\ edge.distance >= 0
            /\ haversineKm(getNode(g, u), getNode(g, end))
                   <= 100000 * edge.distance
                          + haversineKm(getNode(g, edge.to), getNode(g, end))

\* C25: where the heuristic is consistent for the graph, astar returns for
\* an end that start reaches a RouteResult whose totalDistance is the least
\* sum of edge weights over the directed paths from start to end
C25_ConsistentHeuristicOptimal ==
    (/\ Called /\ algorithm = "astar"
     /\ IsAirport(from) /\ IsAirport(to)
     /\ ConsistentHeuristic(G, to)
     /\ PathDistance(from, to) # Infinity)
        => Returned /\ result.totalDistance = PathDistance(from, to)

----------------------------------------------------------------------------
(* Termination and the shape of paths *)

\* C26: for two airports every algorithm ends: no search and no walk goes
\* on for ever, and the walks of a RouteResult have come from end back to
\* start (buildRouteResult) or from start on to end (floydWarshall)
C26_Terminates ==
    (Called /\ IsAirport(from) /\ IsAirport(to))
        => /\ result.kind # "hang"
           /\ Returned => /\ Len(result.path) >= 1
                          /\ result.path[1] = from
                          /\ result.path[Len(result.path)] = to

\* a route of two hops over a graph in which a cycle of weight 0 goes
\* through its start
C26_Witness ==
    /\ Called /\ Returned
    /\ IsAirport(from) /\ IsAirport(to)
    /\ Len(result.path) = 3
    /\ \E x \in 1..Len(routes) :
          /\ routes[x].active /\ routes[x].distanceKm = 0
          /\ from \in {routes[x].from, routes[x].to}
          /\ routes[x].from # routes[x].to

\* C27: no code occurs twice in the path of a RouteResult
C27_SimplePath ==
    (Called /\ Returned) =>
        \A i, j \in 1..Len(result.path) :
            i # j => result.path[i] # result.path[j]

\* a route through all three airports over a graph with a self-loop at the
\* airport in its middle
C27_Witness ==
    /\ Called /\ Returned
    /\ result.path = <<"DEL", "BOM", "BLR">>
    /\ \E x \in 1..Len(routes) :
          routes[x].active /\ routes[x].from = "BOM" /\ routes[x].to = "BOM"

\* C29: every edge of an adjacency list has its from and its to among the
\* nodes of the graph
C29_NoDanglingEdge ==
    LET g == G
    IN  \A a \in DOMAIN g.edges : \A k \in 1..Len(g.edges[a]) :
            HasNode(g, g.edges[a][k].from) /\ HasNode(g, g.edges[a][k].to)

----------------------------------------------------------------------------
(* The runs of astar and dijkstra *)

SeqToSet(s) == {s[i] : i \in 1..Len(s)}

\* C23: at every point of an astar run openSet and closedSet are disjoint,
\* every node once closed is closed still, and the gScore and predecessor
\* of a closed node are those it had when it was closed
C23_ClosedStaysClosed ==
    run.alg = "astar" =>
        /\ SeqToSet(run.st.openSet) \cap run.st.closedSet = {}
        /\ run.st.closedSet = {run.removed[i].node : i \in 1..Len(run.removed)}
        /\ \A i \in 1..Len(run.removed) :
              /\ run.st.gScore[run.removed[i].node] = run.removed[i].distance
              /\ run.st.previous[run.removed[i].node] = run.removed[i].previous

\* a run that has closed two nodes and has passed an edge that leads back
\* to the other closed one at no more than that node's gScore
C23_Witness ==
    /\ run.alg = "astar" /\ run.phase = "relax"
    /\ Len(run.removed) = 2
    /\ LET es == getEdges(G, run.current)
       IN  /\ run.i > 1 /\ run.i - 1 <= Len(es)
           /\ es[run.i - 1].to \in run.st.closedSet
           /\ es[run.i - 1].to # run.current
           /\ Plus(run.st.gScore[run.current], es[run.i - 1].distance)
                  <= run.st.gScore[es[run.i - 1].to]

\* C24: in a dijkstra run the nodes leave unvisited in non-decreasing order
\* of the distance they have then, and keep that distance and their
\* predecessor from then on; the destination never leaves unvisited, no
\* node of infinite distance does, and the loop is left only where the
\* destination is selected or no unvisited node has a finite distance
C24_SettledInOrder ==
    run.alg = "dijkstra" =>
        /\ \A i, j \in 1..Len(run.removed) :
              i < j => run.removed[i].distance <= run.removed[j].distance
        /\ \A i \in 1..Len(run.removed) :
              /\ run.removed[i].node # run.end
              /\ run.removed[i].distance # Infinity
              /\ ~InSeq(run.removed[i].node, run.st.unvisited)
              /\ run.st.distances[run.removed[i].node] = run.removed[i].distance
              /\ run.st.previous[run.removed[i].node] = run.removed[i].previous
        /\ run.phase = "done" =>
              \/ run.current = run.end /\ InSeq(run.end, run.st.unvisited)
                    /\ run.st.distances[run.end] # Infinity
              \/ \A c \in SeqToSet(run.st.unvisited) : run.st.distances[c] = Infinity

\* a run that took out two nodes, the second farther than the first, and
\* then selected the destination
C24_Witness ==
    /\ run.alg = "dijkstra" /\ run.phase = "done"
    /\ Len(run.removed) = 2
    /\ run.removed[1].distance < run.removed[2].distance
    /\ run.current = run.end
    /\ run.st.distances[run.end] > run.removed[2].distance

----------------------------------------------------------------------------
(* The handlers *)

\* C28: for an algorithm name that is none of the four, computeRoute
\* returns null, and GET /api/route and GET /api/quote answer 404, broadcast
\* no route:recomputed event and compute no price
C28_UnknownAlgorithm ==
    (response.handler \in {"GET /api/route", "GET /api/quote"}
        /\ algorithm \notin Algorithms)
        => /\ result.kind = "null"
           /\ response.status = 404
           /\ ~response.broadcast
           /\ ~response.priced
           /\ quote = NoQuote

\* GET /api/quote under an unknown algorithm name for two airports that a
\* connection joins, so that any of the four algorithms finds a route
C28_Witness ==
    /\ response.handler = "GET /api/quote"
    /\ algorithm = "bfs"
    /\ from = "DEL" /\ to = "BOM"
    /\ response.status = 404
    /\ dijkstra(Graph(airports, getActiveRoutes(routes)), from, to).kind = "route"

\* C30: the distance POST /api/price/quote derives from the path of a
\* RouteResult, hop by hop among the active routes, is the totalDistance
\* of that RouteResult
C30_PostedDistanceIsTotal ==
    (response.handler = "POST /api/price/quote" /\ Returned
        /\ quote.path = result.path)
        => quote.totalDistanceKm = result.totalDistance

====
